---- MODULE Spec2Model ----
(***************************************************************************)
(* Model of app.py: a Flask application with signup/login/logout, two      *)
(* protected JSON routes (/scrape, /analyze) that call external gateways,  *)
(* and an admin page listing the registered users.                         *)
(*                                                                         *)
(* Python strings that the code inspects (url, content, prompt, the raw    *)
(* model response) are sequences of one-character strings.  Strings the    *)
(* code only passes around (usernames, passwords, messages) are atoms.     *)
(***************************************************************************)
EXTENDS Integers, Sequences, FiniteSets, TLC

VARIABLES
    users,            \* the rows of table user, in insertion order
    session,          \* session[c]: the cookie session of browser c
    pending,          \* pending[w]: the signup request worker w has in flight
    req,              \* the request handled by the last step
    resp,             \* the response it produced
    calls,            \* the gateway invocations made while handling it
    response_str,     \* get_structured_gemini_response: str(response), and
    cleaned_content   \* the value returned; <<>> when the request did not run it

vars == <<users, session, pending, req, resp, calls, response_str, cleaned_content>>

----------------------------------------------------------------------------
(* Bounds *)

MaxUsers == 3      \* rows the table may hold
MaxPieces == 6     \* length, in pieces, of the raw responses of SpecClean
MaxTime == 2       \* distinct readings of time.time_ns()

----------------------------------------------------------------------------
(* Characters and strings *)

Whitespace == {" ", "\n", "\t"}

Marker == <<"c","o","n","t","e","n","t","_","t","y","p","e","=">>

HttpPrefix == <<"h","t","t","p",":","/","/">>

HttpsPrefix == <<"h","t","t","p","s",":","/","/">>

\* str.startswith(prefix)
StartsWith(s, prefix) ==
    /\ Len(prefix) <= Len(s)
    /\ SubSeq(s, 1, Len(prefix)) = prefix

\* a strip that removes nothing
StripNothing(s) == s

\* str.strip(): drop leading and trailing whitespace
Strip(s) ==
    LET keep == {i \in 1..Len(s) : s[i] \notin Whitespace}
    IN  IF keep = {} THEN <<>>
        ELSE LET first == CHOOSE i \in keep : \A k \in keep : i <= k
                 last  == CHOOSE i \in keep : \A k \in keep : k <= i
             IN  SubSeq(s, first, last)

\* str.split(sep)[0]: the text before the first occurrence of sep
SplitFirst(s, sep) ==
    LET hits == {i \in 1..Len(s) :
                    /\ i + Len(sep) - 1 <= Len(s)
                    /\ SubSeq(s, i, i + Len(sep) - 1) = sep}
    IN  IF hits = {} THEN s
        ELSE SubSeq(s, 1, (CHOOSE i \in hits : \A k \in hits : i <= k) - 1)

\* (?<!\*)\*(?!\*): an asterisk with no asterisk next to it
LoneAsterisk(s, i) ==
    /\ s[i] = "*"
    /\ (i = 1 \/ s[i-1] # "*")
    /\ (i = Len(s) \/ s[i+1] # "*")

\* the positions where a span opened at i can close: (.+?) is one or more
\* characters other than a line break, then a lone asterisk
Closers(s, i) ==
    {j \in (i+2)..Len(s) :
        /\ LoneAsterisk(s, j)
        /\ \A k \in (i+1)..(j-1) : s[k] # "\n"}

RECURSIVE EmphasisFrom(_, _)
\* re.sub(r'(?<!\*)\*(?!\*)(.+?)(?<!\*)\*(?!\*)', r'**\1**', s) from position i:
\* leftmost matches, each as short as possible, never overlapping
EmphasisFrom(s, i) ==
    IF i > Len(s) THEN <<>>
    ELSE IF LoneAsterisk(s, i) /\ Closers(s, i) # {}
         THEN LET j == CHOOSE x \in Closers(s, i) : \A y \in Closers(s, i) : x <= y
              IN  <<"*", "*">> \o SubSeq(s, i+1, j-1) \o <<"*", "*">>
                      \o EmphasisFrom(s, j+1)
         ELSE <<s[i]>> \o EmphasisFrom(s, i+1)

RECURSIVE ReplaceNewlines(_)
\* str.replace('\n', '  \n')
ReplaceNewlines(s) ==
    IF s = <<>> THEN <<>>
    ELSE (IF Head(s) = "\n" THEN <<" ", " ", "\n">> ELSE <<Head(s)>>)
             \o ReplaceNewlines(Tail(s))

\* the cleaning with the strip() of line 80 left out
CleanResponseNoStrip(raw) ==
    ReplaceNewlines(EmphasisFrom(SplitFirst(raw, Marker), 1))

\* get_structured_gemini_response, lines 80-88: the cleaning of str(response)
CleanResponse(raw) ==
    ReplaceNewlines(EmphasisFrom(Strip(SplitFirst(raw, Marker)), 1))

----------------------------------------------------------------------------
(* Inputs *)

\* the browsers, each with its own session cookie
Clients == {"c1"}

\* the threads of the hosting runtime that serve signup requests
Workers == {"w1", "w2"}

Usernames == {"alice", "bob"}

Passwords == {"pw1", "pw2"}

\* the salts generate_password_hash may draw
Salts == {"s1"}

Times == 1..MaxTime

\* what crawler.web_crawler(url) may return, and what an upstream call may raise
Contents == {"<html>"}

UpstreamErrors == {"timed out"}

AdminNames == {"admin", "root"}

AdminPasswords == {"12345678", "letmein"}

\* a form field: absent from request.form, or present with a value
Missing == [present |-> FALSE, value |-> <<>>]

Field(v) == [present |-> TRUE, value |-> v]

\* request.form.get(name, default)
FormGet(f, default) == IF f.present THEN f.value ELSE default

ExampleUrl == <<"e","x","a","m","p","l","e",".","c","o","m">>

UrlFields ==
    { Missing,
      Field(<<" ", "\n">>),
      Field(ExampleUrl),
      Field(<<" ">> \o ExampleUrl \o <<"\n">>),
      Field(HttpPrefix \o <<"a">>),
      Field(<<" ">> \o HttpsPrefix \o <<"a">>),
      Field(<<"H","T","T","P",":","/","/","a">>),
      Field(<<"h","t","t","p">>) }

TextFields == { Missing, Field(<<" ", "\n">>), Field(<<" ", "a", " ">>) }

ExampleRaw ==
    <<"*","h","e","l","l","o","*"," ","w","o","r","l","d","\n">> \o Marker
        \o <<"f","o","o">>

\* the raw responses the model may give in Spec
SampleRaw == { ExampleRaw, <<"a", "\n", "*", "b", "*">>, <<" ", "*", "*", "a">> }

Pieces == { <<"*">>, <<"a">>, <<"\n">>, <<" ">>, Marker }

RECURSIVE Flatten(_)
Flatten(ps) == IF ps = <<>> THEN <<>> ELSE Head(ps) \o Flatten(Tail(ps))

\* the raw responses the model may give in SpecClean
RawTexts ==
    {ExampleRaw} \cup
    { Flatten(ps) : ps \in UNION { [1..n -> Pieces] : n \in 0..MaxPieces } }

----------------------------------------------------------------------------
(* Credential store: table user, lines 43-47.  A row is [id, username,     *)
(* password_hash]; created_at is set once by the insert and read by no      *)
(* handler, and is left out.                                                 *)

\* werkzeug generate_password_hash: a salted one-way digest
GeneratePasswordHash(password, salt) ==
    [salt |-> salt, digest |-> <<salt, password>>]

\* a verification that accepts every password
CheckPasswordHashAny(hash, password) == TRUE

\* werkzeug check_password_hash: recompute the digest with the stored salt
CheckPasswordHash(hash, password) ==
    hash.digest = <<hash.salt, password>>

\* a lookup that never finds a row
QueryFirstNone(tbl, username) == 0

\* User.query.filter_by(username=username).first(): the row's index, 0 for None
QueryFirst(tbl, username) ==
    LET hits == {i \in 1..Len(tbl) : tbl[i].username = username}
    IN  IF hits = {} THEN 0
        ELSE CHOOSE i \in hits : \A k \in hits : i <= k

\* a column declared without unique=True
UniqueOKUnchecked(tbl, username) == TRUE

\* username = db.Column(..., unique=True): the insert the database accepts
UniqueOK(tbl, username) ==
    \A i \in 1..Len(tbl) : tbl[i].username # username

----------------------------------------------------------------------------
(* Sessions *)

NoUser == "<absent>"

EmptySession == [user |-> NoUser, admin_authenticated |-> FALSE]

\* a check that lets every session through
UserInSessionAlways(s) == TRUE

\* "user" in session
UserInSession(s) == s.user # NoUser

----------------------------------------------------------------------------
(* Requests and responses.  A flashed message is recorded in the response  *)
(* that follows the flash() call.                                           *)

Idle == [busy |-> FALSE, username |-> "", password |-> ""]

Request(c, route, method, s) ==
    [client |-> c, route |-> route, method |-> method, session |-> s,
     username |-> "", password |-> "",
     url |-> Missing, content |-> Missing, prompt |-> Missing]

NoRequest == Request("", "", "", EmptySession)

NoDebugId == <<>>

\* the fields every response has; a handler overrides the ones it sets
Blank ==
    [status |-> 0, kind |-> "", target |-> "", flash |-> "",
     error |-> <<>>, json_status |-> "", debug_id |-> NoDebugId,
     content |-> "", analysis |-> <<>>, users |-> <<>>]

\* redirect(url_for(endpoint)), after flash(message)
Redirect(endpoint, message) ==
    [Blank EXCEPT !.status = 302, !.kind = "redirect", !.target = endpoint,
                  !.flash = message]

\* render_template(name), after flash(message)
Render(name, message) ==
    [Blank EXCEPT !.status = 200, !.kind = "render", !.target = name,
                  !.flash = message]

\* jsonify({"error": ..., "status": "error"[, "debug_id": ...]}), status
JsonError(status, error, debug_id) ==
    [Blank EXCEPT !.status = status, !.kind = "json", !.error = error,
                  !.json_status = "error", !.debug_id = debug_id]

----------------------------------------------------------------------------
(* Initial state: an empty table (db.create_all on a new users.db), no     *)
(* session cookie in any browser, no request in flight.                    *)

Init ==
    /\ users = <<>>
    /\ session = [c \in Clients |-> EmptySession]
    /\ pending = [w \in Workers |-> Idle]
    /\ req = NoRequest
    /\ resp = Blank
    /\ calls = <<>>
    /\ response_str = <<>>
    /\ cleaned_content = <<>>

\* what a handler that calls no gateway leaves alone
NoGateway ==
    /\ calls' = <<>>
    /\ response_str' = <<>>
    /\ cleaned_content' = <<>>

----------------------------------------------------------------------------
(* Page handlers *)

\* GET /, lines 90-94
Index(c) ==
    /\ req' = Request(c, "index", "GET", session[c])
    /\ resp' = IF ~UserInSession(session[c])
               THEN Redirect("login", "")
               ELSE Render("index.html", "")
    /\ NoGateway
    /\ UNCHANGED <<users, session, pending>>

\* GET /home, lines 96-98
Home(c) ==
    /\ req' = Request(c, "home", "GET", session[c])
    /\ resp' = Render("home.html", "")
    /\ NoGateway
    /\ UNCHANGED <<users, session, pending>>

\* GET /login and GET /signup, lines 112 and 133: the form alone
GetForm(c, route) ==
    /\ req' = Request(c, route, "GET", session[c])
    /\ resp' = Render(IF route = "login" THEN "login.html" ELSE "signup.html", "")
    /\ NoGateway
    /\ UNCHANGED <<users, session, pending>>

\* POST /login, lines 100-112
Login(c, username, password) ==
    LET i == QueryFirst(users, username)
        ok == i # 0 /\ CheckPasswordHash(users[i].password_hash, password)
    IN  /\ req' = [Request(c, "login", "POST", session[c])
                      EXCEPT !.username = username, !.password = password]
        /\ IF ok
           THEN /\ session' = [session EXCEPT ![c].user = username]
                /\ resp' = Redirect("index", "Logged in successfully!")
           ELSE /\ UNCHANGED session
                /\ resp' = Render("login.html", "Invalid username or password")
        /\ NoGateway
        /\ UNCHANGED <<users, pending>>

\* a signup that, for a username already taken, stores the new password
SignupCheckUpsert(w, c, username, password) ==
    /\ ~pending[w].busy
    /\ req' = [Request(c, "signup", "POST", session[c])
                  EXCEPT !.username = username, !.password = password]
    /\ LET i == QueryFirst(users, username)
       IN  IF i # 0
           THEN /\ resp' = Render("signup.html", "Username already exists")
                /\ \E salt \in Salts :
                      users' = [users EXCEPT ![i].password_hash =
                                   GeneratePasswordHash(password, salt)]
                /\ UNCHANGED pending
           ELSE /\ resp' = Blank
                /\ UNCHANGED users
                /\ pending' = [pending EXCEPT ![w] =
                      [busy |-> TRUE, username |-> username, password |-> password]]
    /\ NoGateway
    /\ UNCHANGED session

\* POST /signup, lines 116-122: the existence check.  A request that finds
\* no row goes on to the insert; its response comes with SignupCommit.
SignupCheck(w, c, username, password) ==
    /\ ~pending[w].busy
    /\ req' = [Request(c, "signup", "POST", session[c])
                  EXCEPT !.username = username, !.password = password]
    /\ IF QueryFirst(users, username) # 0
       THEN /\ resp' = Render("signup.html", "Username already exists")
            /\ UNCHANGED pending
       ELSE /\ resp' = Blank
            /\ pending' = [pending EXCEPT ![w] =
                  [busy |-> TRUE, username |-> username, password |-> password]]
    /\ NoGateway
    /\ UNCHANGED <<users, session>>

\* POST /signup, lines 124-132: db.session.add and commit.  The database
\* refuses a second row with the same username (line 45); the IntegrityError
\* is not caught, so the request ends in Flask's 500 response.
SignupCommit(w, c) ==
    /\ pending[w].busy
    /\ Len(users) < MaxUsers
    /\ req' = [Request(c, "signup", "POST", session[c])
                  EXCEPT !.username = pending[w].username,
                         !.password = pending[w].password]
    /\ IF UniqueOK(users, pending[w].username)
       THEN /\ \E salt \in Salts :
                  users' = Append(users,
                      [id |-> Len(users) + 1,
                       username |-> pending[w].username,
                       password_hash |->
                           GeneratePasswordHash(pending[w].password, salt)])
            /\ resp' = Redirect("login", "Account created successfully! Please login.")
       ELSE /\ UNCHANGED users
            /\ resp' = [Blank EXCEPT !.status = 500, !.kind = "exception",
                                     !.error = <<"IntegrityError">>]
    /\ pending' = [pending EXCEPT ![w] = Idle]
    /\ NoGateway
    /\ UNCHANGED session

\* GET /logout, lines 135-139
Logout(c) ==
    /\ req' = Request(c, "logout", "GET", session[c])
    /\ session' = [session EXCEPT ![c].user = NoUser]
    /\ resp' = Redirect("home", "Logged out successfully!")
    /\ NoGateway
    /\ UNCHANGED <<users, pending>>

\* /admin/db-viewer, lines 227-252
DbViewer(c, method, admin_username, admin_password) ==
    /\ req' = [Request(c, "db_viewer", method, session[c])
                  EXCEPT !.username = admin_username, !.password = admin_password]
    /\ IF ~UserInSession(session[c])
       THEN /\ resp' = Redirect("login", "Please login to access this page")
            /\ UNCHANGED session
       ELSE IF method = "POST" /\ admin_username = "admin" /\ admin_password = "12345678"
       THEN /\ session' = [session EXCEPT ![c].admin_authenticated = TRUE]
            /\ resp' = [Render("db_viewer.html", "") EXCEPT !.users = users]
       ELSE LET message == IF method = "POST" THEN "Invalid admin credentials" ELSE ""
            IN  /\ resp' = IF session[c].admin_authenticated
                           THEN [Render("db_viewer.html", message) EXCEPT !.users = users]
                           ELSE Render("admin_login.html", message)
                /\ UNCHANGED session
    /\ NoGateway
    /\ UNCHANGED <<users, pending>>

----------------------------------------------------------------------------
(* JSON handlers and their gateways *)

\* a normalisation that prefixes the plain-http scheme
NormalizeUrlHttp(url) ==
    IF ~(StartsWith(url, HttpPrefix) \/ StartsWith(url, HttpsPrefix))
    THEN HttpPrefix \o url
    ELSE url

\* lines 159-160: a url without a scheme gets https://
NormalizeUrl(url) ==
    IF ~(StartsWith(url, HttpPrefix) \/ StartsWith(url, HttpsPrefix))
    THEN HttpsPrefix \o url
    ELSE url

\* POST /scrape, lines 141-180, with scrape_website (lines 59-69), whose
\* crawler either returns the page or raises
ScrapeUrl(c, urlField) ==
    /\ req' = [Request(c, "scrape", "POST", session[c]) EXCEPT !.url = urlField]
    /\ UNCHANGED <<users, session, pending>>
    /\ response_str' = <<>>
    /\ cleaned_content' = <<>>
    /\ IF ~UserInSession(session[c])
       THEN /\ resp' = JsonError(401, <<"Authentication required">>, NoDebugId)
            /\ calls' = <<>>
       ELSE \E t \in Times :
            LET debug_id == <<"SCRAPE", t>>
                url == Strip(FormGet(urlField, <<>>))
            IN  IF url = <<>>
                THEN /\ resp' = JsonError(400, <<"URL is required">>, debug_id)
                     /\ calls' = <<>>
                ELSE /\ calls' = <<[fn |-> "scrape_website",
                                    args |-> <<NormalizeUrl(url)>>]>>
                     /\ \/ \E scraped_content \in Contents :
                              resp' = [Blank EXCEPT
                                          !.status = 200, !.kind = "json",
                                          !.content = scraped_content,
                                          !.json_status = "success",
                                          !.debug_id = debug_id]
                        \/ \E e \in UpstreamErrors :
                              resp' = JsonError(500, <<"Scraping failed: ", e>>,
                                                debug_id)

\* POST /analyze, lines 182-225, with get_structured_gemini_response
\* (lines 71-88), whose agent either answers with one of raws or raises
AnalyzeWith(c, contentField, promptField, raws) ==
    /\ req' = [Request(c, "analyze", "POST", session[c])
                  EXCEPT !.content = contentField, !.prompt = promptField]
    /\ UNCHANGED <<users, session, pending>>
    /\ IF ~UserInSession(session[c])
       THEN /\ resp' = JsonError(401, <<"Authentication required">>, NoDebugId)
            /\ calls' = <<>>
            /\ response_str' = <<>> /\ cleaned_content' = <<>>
       ELSE \E t \in Times :
            LET debug_id == <<"ANALYZE", t>>
                content == Strip(FormGet(contentField, <<>>))
                prompt == Strip(FormGet(promptField, <<>>))
            IN  IF content = <<>>
                THEN /\ resp' = JsonError(400, <<"Content is required">>, debug_id)
                     /\ calls' = <<>>
                     /\ response_str' = <<>> /\ cleaned_content' = <<>>
                ELSE IF prompt = <<>>
                THEN /\ resp' = JsonError(400, <<"Prompt is required">>, debug_id)
                     /\ calls' = <<>>
                     /\ response_str' = <<>> /\ cleaned_content' = <<>>
                ELSE /\ calls' = <<[fn |-> "get_structured_gemini_response",
                                    args |-> <<content, prompt>>]>>
                     /\ \/ \E raw \in raws :
                              /\ response_str' = raw
                              /\ cleaned_content' = CleanResponse(raw)
                              /\ resp' = [Blank EXCEPT
                                             !.status = 200, !.kind = "json",
                                             !.analysis = CleanResponse(raw),
                                             !.json_status = "success"]
                        \/ \E e \in UpstreamErrors :
                              /\ resp' = JsonError(500, <<"Analysis failed: ", e>>,
                                                   NoDebugId)
                              /\ response_str' = <<>> /\ cleaned_content' = <<>>

AnalyzeContent(c, contentField, promptField) ==
    AnalyzeWith(c, contentField, promptField, SampleRaw)

----------------------------------------------------------------------------
(* Specifications *)

Next ==
    \/ \E c \in Clients : Index(c)
    \/ \E c \in Clients : Home(c)
    \/ \E c \in Clients, route \in {"login", "signup"} : GetForm(c, route)
    \/ \E c \in Clients, u \in Usernames, p \in Passwords : Login(c, u, p)
    \/ \E w \in Workers, c \in Clients, u \in Usernames, p \in Passwords :
          SignupCheck(w, c, u, p)
    \/ \E w \in Workers, c \in Clients : SignupCommit(w, c)
    \/ \E c \in Clients : Logout(c)
    \/ \E c \in Clients, f \in UrlFields : ScrapeUrl(c, f)
    \/ \E c \in Clients, cf \in TextFields, pf \in TextFields :
          AnalyzeContent(c, cf, pf)
    \/ \E c \in Clients : DbViewer(c, "GET", "", "")
    \/ \E c \in Clients, au \in AdminNames, ap \in AdminPasswords :
          DbViewer(c, "POST", au, ap)

Spec == Init /\ [][Next]_vars

\* The cleaning of the model's response over all short raw texts: browser c1
\* has signed up and logged in as alice and posts to /analyze; response_str
\* starts as the answer the model is about to give.
InitClean ==
    /\ users = <<[id |-> 1, username |-> "alice",
                  password_hash |-> GeneratePasswordHash("pw1", "s1")]>>
    /\ session = [c \in Clients |-> [EmptySession EXCEPT !.user = "alice"]]
    /\ pending = [w \in Workers |-> Idle]
    /\ req = NoRequest
    /\ resp = Blank
    /\ calls = <<>>
    /\ response_str \in RawTexts
    /\ cleaned_content = <<>>

NextClean ==
    \E c \in Clients :
        AnalyzeWith(c, Field(<<" ", "a", " ">>), Field(<<"a">>), {response_str})

SpecClean == InitClean /\ [][NextClean]_vars

----------------------------------------------------------------------------
(* Properties *)

HasUser(session_) == session_.user # NoUser

\* the stored hash of row is the hash of password
Matches(row, password) ==
    row.password_hash = GeneratePasswordHash(password, row.password_hash.salt)

\* a form field that is missing, empty or whitespace-only
IsBlank(f) ==
    \A i \in 1..Len(FormGet(f, <<>>)) : FormGet(f, <<>>)[i] \in Whitespace

\* C1: a POST to /scrape or /analyze whose session holds no "user" entry
\* gets the 401 'Authentication required' response and invokes no gateway.
C1_UnauthenticatedRejected ==
    (req.route \in {"scrape", "analyze"} /\ ~HasUser(req.session))
        => /\ resp.status = 401
           /\ resp.error = <<"Authentication required">>
           /\ resp.json_status = "error"
           /\ calls = <<>>

\* the rejected request comes from a session that had logged in, passed the
\* admin check and logged out
C1_Witness ==
    /\ req.route \in {"scrape", "analyze"}
    /\ ~HasUser(req.session)
    /\ req.session.admin_authenticated
    /\ users # <<>>
    /\ resp.status = 401

\* C2: no two rows of the table have the same username, however the checks
\* and the commits of concurrent signups interleave.
C2_UsernameUnique ==
    \A i, j \in 1..Len(users) :
        i # j => users[i].username # users[j].username

\* a signup passed its existence check, lost the race, and its commit was
\* refused
C2_Witness ==
    /\ req.route = "signup"
    /\ resp.error = <<"IntegrityError">>
    /\ \E i \in 1..Len(users) : users[i].username = req.username

\* the step handles the arrival of a POST /signup (its existence check): no
\* worker finishes a request in it
SignupArrives ==
    /\ req'.route = "signup"
    /\ req'.method = "POST"
    /\ \A w \in Workers : pending[w].busy => pending'[w].busy

\* C3: a POST /signup for a username that already has a row reports
\* 'Username already exists', starts no insert and leaves the table as it is.
C3_DuplicateSignupRejected ==
    [][ (SignupArrives /\ \E i \in 1..Len(users) : users[i].username = req'.username)
          => /\ resp'.flash = "Username already exists"
             /\ resp'.target = "signup.html"
             /\ users' = users
             /\ pending' = pending ]_vars

\* the rejected signup supplied another password than the stored one
C3_Witness ==
    /\ req.route = "signup"
    /\ resp.flash = "Username already exists"
    /\ \E i \in 1..Len(users) :
          users[i].username = req.username /\ ~Matches(users[i], req.password)

\* C4: a POST /login whose username has no row, or whose password does not
\* match the row's hash, leaves the session as it was, does not redirect and
\* reports invalid credentials.
C4_WrongPasswordFails ==
    ( /\ req.route = "login"
      /\ req.method = "POST"
      /\ ~\E i \in 1..Len(users) :
             users[i].username = req.username /\ Matches(users[i], req.password) )
        => /\ session[req.client] = req.session
           /\ resp.kind = "render"
           /\ resp.target = "login.html"
           /\ resp.flash = "Invalid username or password"

\* a wrong password for a registered user, on a session that is logged in
C4_Witness ==
    /\ req.route = "login"
    /\ req.method = "POST"
    /\ HasUser(req.session)
    /\ \E i \in 1..Len(users) :
          users[i].username = req.username /\ ~Matches(users[i], req.password)
    /\ resp.flash = "Invalid username or password"

\* the number of times character ch occurs in s
Count(ch, s) == Cardinality({i \in 1..Len(s) : s[i] = ch})

\* whether sep occurs in s
Occurs(sep, s) ==
    \E i \in 1..Len(s) :
        i + Len(sep) - 1 <= Len(s) /\ SubSeq(s, i, i + Len(sep) - 1) = sep

\* the part of raw before its first marker: the prefix that holds no marker
\* and is all of raw or is followed by one
BeforeMarker(raw) ==
    LET n == CHOOSE k \in 0..Len(raw) :
                 /\ ~Occurs(Marker, SubSeq(raw, 1, k))
                 /\ \/ k = Len(raw)
                    \/ StartsWith(SubSeq(raw, k + 1, Len(raw)), Marker)
    IN  SubSeq(raw, 1, n)

IsText(ch) == ch \notin Whitespace \cup {"*"}

\* the request ran the cleaning of the model's response
Cleaned == req.route = "analyze" /\ resp.status = 200

\* C5 as stated: the example's cleaned output keeps the line break that
\* precedes the marker, "**hello** world  \n".
C5_ExampleKeepsLineBreak ==
    (Cleaned /\ response_str = ExampleRaw)
        => resp.analysis =
              <<"*","*","h","e","l","l","o","*","*"," ","w","o","r","l","d",
                " "," ","\n">>

\* C5, amended: the example's cleaned output is "**hello** world".  In
\* general the output is made from the text before the first marker with its
\* leading and trailing whitespace removed: it holds no marker, neither
\* starts nor ends with whitespace, keeps the text's characters other than
\* asterisks and whitespace in order, has one "  \n" for each line break
\* left after the trimming, only gains asterisks, in pairs, and holds no
\* single-asterisk span any more.
C5_CleanedOutput ==
    Cleaned =>
        LET out == resp.analysis
            text == BeforeMarker(response_str)
        IN  /\ response_str = ExampleRaw
                 => out = <<"*","*","h","e","l","l","o","*","*"," ",
                            "w","o","r","l","d">>
            /\ out = cleaned_content
            /\ ~Occurs(Marker, out)
            /\ out # <<>> => out[1] \notin Whitespace /\ out[Len(out)] \notin Whitespace
            /\ (out = <<>>) = (\A i \in 1..Len(text) : text[i] \in Whitespace)
            /\ SelectSeq(out, IsText) = SelectSeq(text, IsText)
            /\ Count("\n", out) = Count("\n", Strip(text))
            /\ \A i \in 1..Len(out) :
                  out[i] = "\n" => i > 2 /\ out[i-1] = " " /\ out[i-2] = " "
            /\ Count("*", out) >= Count("*", text)
            /\ (Count("*", out) - Count("*", text)) % 2 = 0
            /\ \A i \in 1..Len(out) : LoneAsterisk(out, i) => Closers(out, i) = {}

\* the example has been cleaned
C5_Witness ==
    /\ Cleaned
    /\ response_str = ExampleRaw
    /\ resp.analysis = <<"*","*","h","e","l","l","o","*","*"," ","w","o","r","l","d">>

\* C6 as stated: every request to /analyze whose content or prompt is blank
\* is answered 400, without a gateway call.
C6_BlankAlways400 ==
    (req.route = "analyze" /\ (IsBlank(req.content) \/ IsBlank(req.prompt)))
        => resp.status = 400 /\ calls = <<>>

\* C6, amended: a request to /analyze whose content or prompt is blank never
\* reaches the gateway; it is answered 400 with the field's message when the
\* session holds a user, and 401 when it does not (the authentication check
\* comes first).
C6_BlankRejected ==
    (req.route = "analyze" /\ (IsBlank(req.content) \/ IsBlank(req.prompt)))
        => /\ calls = <<>>
           /\ resp.json_status = "error"
           /\ IF HasUser(req.session)
              THEN /\ resp.status = 400
                   /\ resp.error = IF IsBlank(req.content)
                                   THEN <<"Content is required">>
                                   ELSE <<"Prompt is required">>
              ELSE resp.status = 401

\* a logged-in request with content and a whitespace-only prompt
C6_Witness ==
    /\ req.route = "analyze"
    /\ HasUser(req.session)
    /\ ~IsBlank(req.content)
    /\ req.prompt = Field(<<" ", "\n">>)
    /\ resp.status = 400

\* C7: every 500 response of /scrape or /analyze is JSON carrying the
\* upstream exception's message and the request's debug_id.
C7_UpstreamFailureCarriesId ==
    (req.route \in {"scrape", "analyze"} /\ resp.status = 500)
        => /\ resp.kind = "json"
           /\ Len(resp.error) = 2
           /\ resp.error[2] \in UpstreamErrors
           /\ resp.debug_id # NoDebugId

\* s begins with the characters of prefix
HasPrefix(s, prefix) ==
    /\ Len(s) >= Len(prefix)
    /\ \A i \in 1..Len(prefix) : s[i] = prefix[i]

\* C8: an authenticated POST /scrape with a blank url is answered 400 with no
\* gateway call; otherwise scrape_website is invoked exactly once, with the
\* trimmed url if it starts with http:// or https://, and with https://
\* prepended to it if not ("example.com" gives "https://example.com").
C8_SchemeNormalized ==
    (req.route = "scrape" /\ HasUser(req.session))
        => LET url == Strip(FormGet(req.url, <<>>))
           IN  /\ IsBlank(req.url) => resp.status = 400 /\ calls = <<>>
               /\ ~IsBlank(req.url) =>
                     /\ Len(calls) = 1
                     /\ calls[1].fn = "scrape_website"
                     /\ calls[1].args =
                           << IF \/ HasPrefix(url, <<"h","t","t","p",":","/","/">>)
                                 \/ HasPrefix(url, <<"h","t","t","p","s",":","/","/">>)
                              THEN url
                              ELSE <<"h","t","t","p","s",":","/","/">> \o url >>
               /\ req.url = Field(ExampleUrl) =>
                     calls[1].args =
                        << <<"h","t","t","p","s",":","/","/",
                             "e","x","a","m","p","l","e",".","c","o","m">> >>

\* "example.com" has been scraped
C8_Witness ==
    /\ req.route = "scrape"
    /\ HasUser(req.session)
    /\ req.url = Field(ExampleUrl)
    /\ resp.status = 200
    /\ calls = <<[fn |-> "scrape_website",
                  args |-> << HttpsPrefix \o ExampleUrl >>]>>

\* C9: after GET /logout the session carries no authentication state: no
\* user and no admin_authenticated flag.
C9_LogoutDestroysSession ==
    req.route = "logout" => session[req.client] = EmptySession

\* C10: the table only grows, a row never changes, and a row is added
\* exactly by the step that answers a signup with the redirect to login.
C10_UsersOnlyGrow ==
    [][ /\ Len(users') >= Len(users)
        /\ Len(users') <= Len(users) + 1
        /\ \A i \in 1..Len(users) : users'[i] = users[i]
        /\ (Len(users') = Len(users) + 1)
              = (req'.route = "signup" /\ resp'.kind = "redirect"
                    /\ resp'.target = "login")
        /\ Len(users') = Len(users) + 1
              => /\ users'[Len(users')].username = req'.username
                 /\ Matches(users'[Len(users')], req'.password) ]_vars

\* with two users stored, a signup for a taken username has been rejected
C10_Witness ==
    /\ Len(users) = 2
    /\ req.route = "signup"
    /\ resp.flash = "Username already exists"

====
